---- MODULE Spec2Model ----
(***************************************************************************)
(* FusionGPT: a chat panel inside a CAD host that sends the user's text to *)
(* a hosted language model, extracts a fenced code block from the reply    *)
(* and runs it in the host process.                                        *)
(*                                                                         *)
(* Texts (messages, replies, code, results) are sequences of tokens.  A    *)
(* token stands for a literal piece of text: "fence" is the fence marker   *)
(* of three backticks, "python" the language tag, " " a run of whitespace, *)
(* "U+03C0" and "U+00E9" two non-ASCII characters, and every other token a *)
(* piece of ASCII text.  Substring tests such as "def run(context)" in     *)
(* code are tests on the tokens of the text.                               *)
(*                                                                         *)
(* The host's file system and message boxes are taken to work for the      *)
(* runners: creating, writing and unlinking a temporary file, and          *)
(* ui.messageBox, succeed.  What varies is the inbound message, the        *)
(* provider's answer and what the generated code does when it is loaded    *)
(* and run.  The cache file of the documentation retriever may be absent,  *)
(* stale, unreadable or unwritable.                                        *)
(***************************************************************************)
EXTENDS Integers, Sequences, FiniteSets, TLC

VARIABLES
    message,                \* extractor harness: the text handed to extract_code
    extracted,              \* extractor harness: which extractor ran and its result
    history_list,           \* history harness: the list add_to_history works on
    added,                  \* history harness: every item added so far, oldest first
    run,                    \* runner harness: the code, what it does when run, the outcome
    call,                   \* gateway harness: the message, the provider's answer, the outcome
    temp_files,             \* the temporary code units that exist on disk
    sys_path,               \* the entries the runners have put on sys.path, first first
    recent_code_history,    \* entry.recent_code_history, most recent first
    recent_error_history,   \* entry.recent_error_history, most recent first
    turn,                   \* what handling the last inbound panel message did
    turns,                  \* the number of inbound panel messages handled
    cache,                  \* retriever harness: the cache file of the documentation
    docs,                   \* retriever harness: the FusionAPIDocs instance, if any
    launches,               \* retriever harness: the instances constructed so far
    ui,                     \* entry.ui: the command definition, the control, the palettes
    local_handlers,         \* entry.local_handlers: how many handlers the list holds
    command,                \* the host's command: none, created or executed
    running,                \* whether the add-in has been started and not yet stopped
    starts,                 \* the number of times the add-in was started
    clicks                  \* the number of times the command button was clicked

extractorVars == <<message, extracted>>

historyVars == <<history_list, added>>

panelVars == <<recent_code_history, recent_error_history, turn, turns>>

docsVars == <<cache, docs, launches>>

uiVars == <<ui, local_handlers, command, running, starts, clicks>>

vars == <<extractorVars, historyVars, run, call, temp_files, sys_path, panelVars, docsVars,
          uiVars>>

-----------------------------------------------------------------------------
(* Bounds *)

MaxLen == 5                 \* longest text handed to extract_code
MaxAdds == 7                \* longest sequence of add_to_history calls
MaxWords == 2               \* longest user message handed to process_message
MaxAgeDays == 15            \* oldest cache file, in whole days
MaxLaunches == 2            \* most FusionAPIDocs instances constructed
MaxTurns == 2               \* most inbound panel messages handled in one run

-----------------------------------------------------------------------------
(* Python values *)

\* Python's None and a str value, kept apart so that '' is not None.
None == [some |-> FALSE, val |-> <<>>]

Str(s) == [some |-> TRUE, val |-> s]

\* "if x" and "not x" on an optional string: None and '' are falsy.
Truthy(x) == x.some /\ x.val # <<>>

Min(S) == CHOOSE x \in S : \A y \in S : x <= y

Max(S) == CHOOSE x \in S : \A y \in S : x >= y

-----------------------------------------------------------------------------
(* str operations used by the code *)

\* First index at which pat occurs in s, 0 when it does not occur.
Find(s, pat) ==
    LET hits == {i \in 1..(Len(s) - Len(pat) + 1) : SubSeq(s, i, i + Len(pat) - 1) = pat}
    IN  IF hits = {} THEN 0 ELSE Min(hits)

\* pat in s
In(pat, s) == Find(s, pat) # 0

\* s.split(pat, 1)[0]: all of s when pat does not occur.
SplitHead(s, pat) ==
    IF In(pat, s) THEN SubSeq(s, 1, Find(s, pat) - 1) ELSE s

\* s.split(pat, 1)[1], defined only when pat occurs in s.
SplitTail(s, pat) == SubSeq(s, Find(s, pat) + Len(pat), Len(s))

IsSpace(t) == t = " "

\* s.strip()
Strip(s) ==
    LET keep == {i \in 1..Len(s) : ~IsSpace(s[i])}
    IN  IF keep = {} THEN <<>> ELSE SubSeq(s, Min(keep), Max(keep))

RECURSIVE Concat(_)
Concat(ss) == IF ss = <<>> THEN <<>> ELSE Head(ss) \o Concat(Tail(ss))

-----------------------------------------------------------------------------
(* code_executor.remove_unicode_chars *)

NonAscii == {"U+03C0", "U+00E9"}

\* The replacement table: U+03C0 (pi) is in it, U+00E9 is not.
Replacement(t) == IF t = "U+03C0" THEN <<"pi">> ELSE <<t>>

\* What the second pass leaves of one character.
Removed(t) ==
    IF t \in NonAscii THEN <<" ", "/* Unicode character removed */", " ">> ELSE <<t>>

remove_unicode_chars(code) ==
    LET replaced == Concat([i \in 1..Len(code) |-> Replacement(code[i])])
    IN  Concat([i \in 1..Len(replaced) |-> Removed(replaced[i])])

-----------------------------------------------------------------------------
(* extract_code, in both plugins *)

FENCE == <<"fence">>

PYFENCE == <<"fence", "python">>

\* A plausible slip: the block is taken to end at the last fence, not the next.
extract_code_greedy(msg) ==
    IF In(PYFENCE, msg) /\ In(FENCE, SplitTail(msg, PYFENCE))
    THEN LET rest == SplitTail(msg, PYFENCE)
             last == Max({i \in 1..Len(rest) : rest[i] = "fence"})
         IN  Str(remove_unicode_chars(Strip(SubSeq(rest, 1, last - 1))))
    ELSE IF In(FENCE, msg)
    THEN Str(remove_unicode_chars(Strip(SplitHead(SplitTail(msg, FENCE), FENCE))))
    ELSE None

\* A plausible slip: the first fence is taken, tagged or not.
extract_code_first_fence(msg) ==
    IF In(FENCE, msg)
    THEN Str(remove_unicode_chars(Strip(SplitHead(SplitTail(msg, FENCE), FENCE))))
    ELSE None

\* fusionGPT/code_executor.extract_code
extract_code(msg) ==
    IF In(PYFENCE, msg) /\ In(FENCE, SplitTail(msg, PYFENCE))
    THEN Str(remove_unicode_chars(Strip(SplitHead(SplitTail(msg, PYFENCE), FENCE))))
    ELSE IF In(FENCE, msg)
    THEN Str(remove_unicode_chars(Strip(SplitHead(SplitTail(msg, FENCE), FENCE))))
    ELSE None

\* paletteShow/code_executor.extract_code: the same, without the cleaning.
ps_extract_code(msg) ==
    IF In(PYFENCE, msg) /\ In(FENCE, SplitTail(msg, PYFENCE))
    THEN Str(Strip(SplitHead(SplitTail(msg, PYFENCE), FENCE)))
    ELSE IF In(FENCE, msg)
    THEN Str(Strip(SplitHead(SplitTail(msg, FENCE), FENCE)))
    ELSE None

-----------------------------------------------------------------------------
(* entry.add_to_history *)

MAX_HISTORY_ITEMS == 5

\* A plausible slip: the bound is tested before the insert, so the list can
\* grow to one more than the maximum.
add_to_history_late(item, list) ==
    IF Len(list) > MAX_HISTORY_ITEMS
    THEN <<item>> \o SubSeq(list, 1, Len(list) - 1)
    ELSE <<item>> \o list

\* history_list.insert(0, item); pop() when the list is longer than the maximum.
add_to_history(item, list) ==
    LET inserted == <<item>> \o list
    IN  IF Len(inserted) > MAX_HISTORY_ITEMS
        THEN SubSeq(inserted, 1, Len(inserted) - 1)
        ELSE inserted

-----------------------------------------------------------------------------
(* Substring tests.  SubstringsOf(t) lists the probed substrings that the    *)
(* literal text of token t contains, compared case-sensitively;             *)
(* LowerSubstringsOf(t) those that its lower-cased text contains.           *)

SubstringsOf(t) ==
    CASE t = "def run(context):" -> {"def run(context)", "def "}
      [] t = "def run(ctx):" -> {"def "}
      [] t = "# def run(context)" -> {"def run(context)", "def "}
      [] t = "try:" -> {"try:"}
      [] t = "except:" -> {"except"}
      [] t = "app = adsk.core.Application.get()" -> {"app = adsk.core.Application.get()"}
      [] t = "ui = app.userInterface" -> {"ui = app.userInterface"}
      [] t = "revolveFeatures.add(axis)" -> {"revolve", "axis"}
      [] t = "extrudeFeatures.add(prof)" -> {"extrude"}
      [] t = "# check" -> {"check"}
      [] t = "# handler" -> {"handler"}
      [] t = "global handlers" -> {"global ", "handler"}
      [] t = "WARNING: Using createByReal with string values" -> {"WARNING"}
      [] t = "WARNING: Event handlers defined without proper variable scoping" -> {"WARNING"}
      [] t = "Error executing code: " -> {"Error"}
      [] t = "Error preparing code: " -> {"Error"}
      [] t = "Error: " -> {"Error"}
      [] t = "Error: not found" -> {"Error"}
      [] t = "Error communicating with Claude: " -> {"Error"}
      [] t = "Error processing message: " -> {"Error"}
      [] t = "API Error: " -> {"Error"}
      [] t = "Processing Error: " -> {"Error"}
      [] t = "create a cube" -> {"create"}
      [] t = "remodel it" -> {"model"}
      [] t = "revolve a profile" -> {"revolve", "profile"}
      [] t = "add a feature" -> {"feature"}
      [] t = "Revolve operations" -> {"operation"}
      [] t = "Extrude operations" -> {"operation"}
      [] t = "Ensure revolve axes won't cause tangent errors" -> {"revolve", "tangent", "error"}
      [] t = "fix the error" -> {"fix", "error"}
      [] t = "help" -> {"help"}
      [] t = "don't execute" -> {"don't execute"}
      [] t = "execute the previous code" -> {"execute the previous code"}
      [] t = "axis is tangent" -> {"axis", "tangent"}
      [] t = "invalid profile" -> {"profile"}
      [] t = "SUGGESTION: revolve" -> {"revolve", "tangent", "axis", "profile"}
      [] t = "SUGGESTION: extrude" -> {"extrude", "profile"}
      [] t = "SUGGESTION: boolean" -> {"boolean"}
      [] t = "**Suggested Fix:** revolve" -> {"revolve", "tangent", "axis", "profile"}
      [] t = "**Suggested Fix:** extrude" -> {"extrude", "profile"}
      [] t = "**Suggested Fix:** boolean" -> {"boolean"}
      [] t = "**Tip:** ask 'Please fix the error'" -> {"fix", "error"}
      [] t = "WARNING: non-ASCII characters" -> {"WARNING"}
      [] t = "WARNING: Revolve operation without explicit axis validation" -> {"WARNING", "axis"}
      [] t = "WARNING: Extrude operation without profile validation" -> {"WARNING", "profile"}
      [] OTHER -> {}

LowerSubstringsOf(t) ==
    CASE t = "revolveFeatures.add(axis)" -> {"revolve", "revolvefeatures", "axis"}
      [] t = "extrudeFeatures.add(prof)" -> {"extrude", "extrudefeatures"}
      [] t = "Error executing code: " -> {"error"}
      [] t = "Error preparing code: " -> {"error"}
      [] t = "Error: " -> {"error"}
      [] t = "Error: not found" -> {"error"}
      [] t = "Make A Cube" -> {"make"}
      [] t = "Extrude The Sketch" -> {"extrude", "sketch"}
      [] t = "ExtrudeFeatures" -> {"extrude", "feature"}
      [] t = "RevolveFeatures" -> {"revolve", "feature"}
      [] t = "Sketches" -> {"sketch"}
      [] t = "Revolve operations" -> {"revolve", "operation"}
      [] t = "Extrude operations" -> {"extrude", "operation"}
      [] t = "Execute The Previous Code" -> {"execute the previous code"}
      [] t = "Do Not Execute" -> {"do not execute"}
      [] OTHER -> SubstringsOf(t)

\* probe in text
Has(probe, text) == \E i \in 1..Len(text) : probe \in SubstringsOf(text[i])

\* probe in text.lower()
LowerHas(probe, text) == \E i \in 1..Len(text) : probe \in LowerSubstringsOf(text[i])

-----------------------------------------------------------------------------
(* fusionGPT/code_executor.validate_code *)

\* A ValueInput.create...(...) call that is createByReal with a quoted value.
RealFromString(t) == t = "ValueInput.createByReal('1 cm')"

\* The issues in the order the checks append them.
Issues(code) ==
    (IF ~Has("def run(context)", code)
     THEN <<"Missing run(context) function definition">> ELSE <<>>)
    \o (IF ~Has("try:", code) \/ ~Has("except", code)
        THEN <<"Missing proper error handling (try/except blocks)">> ELSE <<>>)
    \o (IF ~Has("app = adsk.core.Application.get()", code)
        THEN <<"Missing core initialization: app = adsk.core.Application.get()">> ELSE <<>>)
    \o (IF ~Has("ui = app.userInterface", code)
        THEN <<"Missing core initialization: ui = app.userInterface">> ELSE <<>>)
    \o (IF \E i \in 1..Len(code) : code[i] \in NonAscii
        THEN <<"WARNING: non-ASCII characters">> ELSE <<>>)
    \o (IF /\ LowerHas("revolve", code) \/ LowerHas("revolvefeatures", code)
           /\ ~(\E w \in {"check", "validate", "ensure", "verify", "confirm", "test"} :
                    LowerHas(w, code))
           /\ LowerHas("axis", code)
        THEN <<"WARNING: Revolve operation without explicit axis validation">> ELSE <<>>)
    \o (IF /\ LowerHas("extrude", code) \/ LowerHas("extrudefeatures", code)
           /\ ~(\E w \in {"check", "validate", "ensure", "verify", "profiles", "isValid"} :
                    LowerHas(w, code))
        THEN <<"WARNING: Extrude operation without profile validation">> ELSE <<>>)
    \o Concat([i \in 1..Len(code) |->
                   IF RealFromString(code[i])
                   THEN <<"WARNING: Using createByReal with string values">> ELSE <<>>])
    \o (IF /\ Has("def ", code) /\ LowerHas("handler", code)
           /\ ~Has("global ", code) /\ ~Has("nonlocal ", code)
        THEN <<"WARNING: Event handlers defined without proper variable scoping">>
        ELSE <<>>)

\* A plausible slip: any issue, advisory or not, makes the code invalid.
is_valid_strict(issues) == Len(issues) = 0

\* is_valid = len(issues) == 0 or all("WARNING" in issue for issue in issues)
is_valid(issues) ==
    Len(issues) = 0 \/ \A i \in 1..Len(issues) : "WARNING" \in SubstringsOf(issues[i])

validate_code(code) == [is_valid |-> is_valid(Issues(code)), issues |-> Issues(code)]

-----------------------------------------------------------------------------
(* What the generated code does when the runner loads and runs it.          *)
(*   load: running the unit's top-level statements (exec_module, exec)      *)
(*   call: calling its entry point, or running the text again in the        *)
(*         fallback path                                                    *)
(* Each ends normally ("ok"; a call may also return a "value", or an        *)
(* "error_value": a text that holds the word Error), raises an Exception,   *)
(* or raises SystemExit, which Python derives from BaseException and not    *)
(* from Exception.  msg is str(e) of what is raised.                        *)

Raises == {"Exception", "SystemExit"}

ErrorTexts == {<<"boom">>, <<"axis is tangent">>, <<"invalid profile">>}

Behaviours ==
    [load : {"ok"} \cup Raises, call : {"ok", "value", "error_value"} \cup Raises,
     msg : ErrorTexts]

\* str(result) of what the entry point returned; None and "" give nothing.
Payload(returned) ==
    CASE returned = "value" -> <<"value">>
      [] returned = "error_value" -> <<"Error: not found">>
      [] OTHER -> <<>>

\* hasattr(module, 'run'): the unit defines run at its top level.
DefinesRun(code) ==
    \E i \in 1..Len(code) : code[i] \in {"def run(context):", "def run(ctx):"}

\* traceback.format_exc()
Traceback(kind, msg) == <<"Traceback (most recent call last):", kind>> \o msg

\* The result of one pass through a try block of the runner.
\*   raised: "none" when a str is returned, else what propagates
\*   loads:  how many times the unit's top-level statements were run
\*   calls:  how many times the entry point was called
Returned(text, loads, calls) ==
    [raised |-> "none", result |-> text, loads |-> loads, calls |-> calls, created |-> {}]

Propagated(kind, loads, calls) ==
    [raised |-> kind, result |-> <<>>, loads |-> loads, calls |-> calls, created |-> {}]

\* A plausible slip: the error string is returned without the suggestion.
error_msg_plain(code, msg) ==
    <<"Error executing code: ">> \o msg \o <<"\n">> \o Traceback("Exception", msg)

\* except Exception as e, in fusionGPT's inner try
error_msg(code, msg) ==
    <<"Error executing code: ">> \o msg \o <<"\n">> \o Traceback("Exception", msg)
    \o (IF LowerHas("revolve", code) /\ LowerHas("tangent", msg)
        THEN <<"SUGGESTION: revolve">>
        ELSE IF LowerHas("extrude", code) /\ LowerHas("profile", msg)
        THEN <<"SUGGESTION: extrude">>
        ELSE IF LowerHas("boolean", code) /\ LowerHas("body", msg)
        THEN <<"SUGGESTION: boolean">>
        ELSE <<>>)

\* The classes of the model that derive from Exception; SystemExit does not.
ExceptionClasses ==
    {"Exception", "APIConnectionError", "APIStatusError", "IndexError", "AttributeError",
     "JSONDecodeError"}

\* A plausible slip: a clause that names the provider's error classes only.
Catches_api_errors(kind) == kind \in {"APIConnectionError", "APIStatusError"}

\* except Exception: what the clause catches.
Catches(kind) == kind \in ExceptionClasses

\* The inner try of fusionGPT's execute_code, with its except clause.
Attempt(code, cleaned, beh) ==
    LET caught(kind, loads, calls) ==
            IF Catches(kind)
            THEN Returned(error_msg(code, beh.msg), loads, calls)
            ELSE Propagated(kind, loads, calls)
    IN  IF beh.load \in Raises THEN caught(beh.load, 1, 0)
        ELSE IF DefinesRun(cleaned)
        THEN IF beh.call \in Raises THEN caught(beh.call, 1, 1)
             ELSE Returned(<<"Code executed successfully.">>
                           \o (IF Payload(beh.call) # <<>>
                               THEN <<" Result: ">> \o Payload(beh.call) ELSE <<>>),
                           1, 1)
        ELSE \* exec(cleaned_code): the top-level statements run a second time
             IF beh.call \in Raises THEN caught(beh.call, 2, 0)
             ELSE Returned(<<"Code executed directly (no run function found).">>, 2, 0)

NewFile(files) == IF files = {} THEN 1 ELSE Max(files) + 1

\* A plausible slip: the unit is unlinked only after a successful run.
Cleanup_on_success(files, temp_path, attempt) ==
    IF attempt.raised = "none" /\ ~Has("Error", attempt.result)
    THEN files \ {temp_path} ELSE files

\* finally: os.unlink(temp_path)
Cleanup(files, temp_path, attempt) == files \ {temp_path}

\* The outer except Exception of execute_code, around everything else.
Prepared(outcome, msg) ==
    IF outcome.raised # "none" /\ Catches(outcome.raised)
    THEN [outcome EXCEPT !.raised = "none",
                         !.result = <<"Error preparing code: ">> \o msg \o <<"\n">>
                                    \o Traceback(outcome.raised, msg)]
    ELSE outcome

\* fusionGPT/code_executor.execute_code: the outcome and the files left.
execute_code(code, beh, files) ==
    LET v == validate_code(code)
        cleaned == remove_unicode_chars(code)
    IN  IF v.issues # <<>> /\ ~v.is_valid
        THEN [out |-> Returned(<<"VALIDATION FAILED: ",
                                 "Code validation found the following issues:">>
                               \o v.issues \o <<"Execution aborted.">>, 0, 0),
              files |-> files]
        ELSE LET temp_path == NewFile(files)
                 attempt == Attempt(code, cleaned, beh)
             IN  [out |-> Prepared([attempt EXCEPT !.created = {temp_path}], beh.msg),
                  files |-> Cleanup(files \cup {temp_path}, temp_path, attempt)]

-----------------------------------------------------------------------------
(* paletteShow/code_executor.execute_code *)

\* os.path.dirname(temp_path): every unit is made in the one temp directory.
script_dir == "tempdir"

\* sys.path.remove(script_dir): the first entry equal to it is taken out.
PathRemove(path, dir) ==
    LET first == Min({i \in 1..Len(path) : path[i] = dir})
    IN  SubSeq(path, 1, first - 1) \o SubSeq(path, first + 1, Len(path))

\* The code is wrapped in def run(context) with its own try/except Exception,
\* so a syntax error shows when the unit is loaded and everything else when
\* run is called.  The directory of the unit is put first on sys.path before
\* the unit is loaded; the entry is removed and the unit unlinked on the
\* success path only.
ps_execute_code(code, beh, files, path) ==
    LET temp_path == NewFile(files)
        made == files \cup {temp_path}
        inserted == <<script_dir>> \o path
        out(o) == [o EXCEPT !.created = {temp_path}]
    IN  IF beh.load = "Exception"
        THEN [out |-> out(Returned(<<"Error executing code: ">> \o beh.msg \o <<"\n">>
                                   \o Traceback("Exception", beh.msg), 1, 0)),
              files |-> made, path |-> inserted]
        ELSE IF beh.call = "SystemExit"
        THEN [out |-> out(Propagated("SystemExit", 1, 1)), files |-> made,
              path |-> inserted]
        ELSE [out |-> out(Returned(IF beh.call = "Exception"
                                   THEN <<"Error: ">> \o beh.msg
                                   ELSE IF Payload(beh.call) # <<>> THEN Payload(beh.call)
                                   ELSE <<"Code executed successfully">>, 1, 1)),
              files |-> made \ {temp_path}, path |-> PathRemove(inserted, script_dir)]

-----------------------------------------------------------------------------
(* api_docs_retriever.FusionAPIDocs: the tables and the lookup *)

\* A table is the set of its keys; what belongs to a key is fixed.
\* _fetch_api_documentation, _collect_common_errors, _collect_best_practices
StaticDocs ==
    [api_docs |-> {"ExtrudeFeatures", "RevolveFeatures", "Sketches"},
     common_errors |-> {"ASM_PATH_TANGENT", "PROFILE_NOT_CLOSED", "NULL_OBJECT_REFERENCE"},
     best_practices |-> {"error_handling", "validation", "revolve_safety"}]

\* The tables of an instance before anything is loaded.
NoDocs == [api_docs |-> {}, common_errors |-> {}, best_practices |-> {}]

\* The order in which the keys of the tables were inserted.
ApiOrder == <<"ExtrudeFeatures", "RevolveFeatures", "Sketches">>

ErrorOrder == <<"ASM_PATH_TANGENT", "PROFILE_NOT_CLOSED", "NULL_OBJECT_REFERENCE">>

PracticeOrder == <<"error_handling", "validation", "revolve_safety">>

MethodsOf(api_name) == IF api_name = "Sketches" THEN <<"add">> ELSE <<"createInput", "add">>

\* error_info['context']
ContextOf(error_id) ==
    CASE error_id = "ASM_PATH_TANGENT" -> "Revolve operations"
      [] error_id = "PROFILE_NOT_CLOSED" -> "Extrude operations"
      [] OTHER -> "General API usage"

\* practice_info['description']
DescriptionOf(practice_id) ==
    CASE practice_id = "error_handling" ->
             "Always implement proper error handling in Fusion 360 API code"
      [] practice_id = "validation" -> "Always validate inputs before performing operations"
      [] OTHER -> "Ensure revolve axes won't cause tangent errors"

key_api_terms ==
    <<"extrude", "revolve", "sketch", "profile", "plane", "feature", "component", "body",
      "joint", "assembly", "parameter", "pattern", "circular", "rectangular", "mirror",
      "fillet", "chamfer", "hole", "thread", "construction", "offset", "loft">>

\* s without the entries that repeat an earlier one.
RECURSIVE Distinct(_)
Distinct(s) ==
    IF s = <<>> THEN <<>>
    ELSE LET front == Distinct(SubSeq(s, 1, Len(s) - 1))
         IN  IF \E i \in 1..Len(front) : front[i] = s[Len(s)] THEN front
             ELSE Append(front, s[Len(s)])

\* _extract_key_terms: the terms found in the query, in the order of the list.
extract_key_terms(query) ==
    LET found(term) == LowerHas(term, query)
    IN  SelectSeq(key_api_terms, found)

\* The methods of an API whose name holds the term.
MethodsWith(term, api_name) ==
    LET hit(method_name) == term \in LowerSubstringsOf(method_name)
    IN  SelectSeq(MethodsOf(api_name), hit)

\* retrieve_relevant_docs: the APIs in the order they entered the result
\* (whole when the name matched, else with the matching methods only), the
\* errors whose context and the practices whose description hold a term.
retrieve_relevant_docs(query, tables) ==
    LET key_terms == extract_key_terms(query)
        isKey(text) == \E i \in 1..Len(key_terms) : key_terms[i] \in LowerSubstringsOf(text)
        byName(term, api_name) == term \in LowerSubstringsOf(api_name)
        hits(term) ==
            LET hit(api_name) ==
                    /\ api_name \in tables.api_docs
                    /\ byName(term, api_name) \/ MethodsWith(term, api_name) # <<>>
            IN  SelectSeq(ApiOrder, hit)
        names == Distinct(Concat([i \in 1..Len(key_terms) |-> hits(key_terms[i])]))
        entry(api_name) ==
            LET whole == \E i \in 1..Len(key_terms) : byName(key_terms[i], api_name)
            IN  [name |-> api_name, whole |-> whole,
                 methods |-> IF whole THEN MethodsOf(api_name)
                             ELSE Distinct(Concat([i \in 1..Len(key_terms) |->
                                                       MethodsWith(key_terms[i], api_name)]))]
        relevant(error_id) == error_id \in tables.common_errors /\ isKey(ContextOf(error_id))
        advised(practice_id) ==
            practice_id \in tables.best_practices /\ isKey(DescriptionOf(practice_id))
    IN  [apis |-> [i \in 1..Len(names) |-> entry(names[i])],
         relevant_errors |-> SelectSeq(ErrorOrder, relevant),
         best_practices |-> SelectSeq(PracticeOrder, advised)]

\* format_as_context: the digest, one token for each heading and each body.
format_as_context(relevant_docs) ==
    LET api(e) ==
            <<"## ", e.name, "\n">>
            \o (IF e.whole THEN <<"description of ", e.name, "\n\n">> ELSE <<>>)
            \o Concat([i \in 1..Len(e.methods) |-> <<"### ", e.methods[i], "\n", "details">>])
            \o (IF e.whole
                THEN <<"### Common Errors:\n", "errors of ", e.name,
                       "### Best Practices:\n", "practices of ", e.name>>
                ELSE <<>>)
    IN  <<"FUSION 360 API DOCUMENTATION:\n\n">>
        \o Concat([i \in 1..Len(relevant_docs.apis) |-> api(relevant_docs.apis[i])])
        \o (IF relevant_docs.relevant_errors # <<>>
            THEN <<"## COMMON API ERRORS TO AVOID:\n">>
                 \o Concat([i \in 1..Len(relevant_docs.relevant_errors) |->
                                <<"### ", relevant_docs.relevant_errors[i], "\n", "details">>])
            ELSE <<>>)
        \o (IF relevant_docs.best_practices # <<>>
            THEN <<"## BEST PRACTICES:\n">>
                 \o Concat([i \in 1..Len(relevant_docs.best_practices) |->
                                <<"### ", relevant_docs.best_practices[i], "\n", "details">>])
            ELSE <<>>)

-----------------------------------------------------------------------------
(* api_docs_retriever.FusionAPIDocs: the cache file and _load_or_fetch_data *)

CACHE_EXPIRY_DAYS == 14

\* The cache file.
\*   exists:   os.path.exists(API_CACHE_FILE)
\*   age:      cache_age.days, the whole days since the file was modified
\*   readable: reading the modification time, opening and unpickling the
\*             file and taking the tables out of it raise nothing
\*   data:     the tables pickled in it
\*   writable: the file can be opened for writing and the tables dumped
NoCacheFile(writable) ==
    [exists |-> FALSE, age |-> 0, readable |-> TRUE, data |-> NoDocs, writable |-> writable]

\* A plausible slip: a cache of exactly CACHE_EXPIRY_DAYS days is still used.
cache_is_valid_inclusive(age) == age <= CACHE_EXPIRY_DAYS

\* cache_age.days < CACHE_EXPIRY_DAYS
cache_is_valid(age) == age < CACHE_EXPIRY_DAYS

\* _save_to_cache: a failure to write is caught and leaves the file as it is.
save_to_cache(tables, file) ==
    IF file.writable
    THEN [file EXCEPT !.exists = TRUE, !.age = 0, !.readable = TRUE, !.data = tables]
    ELSE file

\* _load_or_fetch_data on an instance whose tables are empty: the tables it
\* ends with and the cache file it leaves.
load_or_fetch_data(file) ==
    LET loaded == IF file.exists /\ file.readable /\ cache_is_valid(file.age)
                  THEN file.data ELSE NoDocs
    IN  IF loaded.api_docs # {}
        THEN [tables |-> loaded, cache |-> file]
        ELSE [tables |-> StaticDocs, cache |-> save_to_cache(StaticDocs, file)]

-----------------------------------------------------------------------------
(* llm_client.process_message, in both plugins *)

\* The system instruction of every call: a fixed text.
system_message == <<"You are a Fusion 360 API expert. ...">>

\* What client.messages.create and response.content[0].text come to: the
\* text of the first block of the reply, or a raised error.  A transport
\* failure raises APIConnectionError and a provider failure APIStatusError;
\* a reply with no content block raises IndexError at content[0], and one
\* whose first block has no text raises AttributeError at .text.
ProviderErrors == {"APIConnectionError", "APIStatusError", "IndexError", "AttributeError"}

Reply(text) == [kind |-> "reply", text |-> text]

Failure(kind) == [kind |-> kind, text |-> <<>>]

CodeIntent == {"create", "make", "generate", "model", "build", "design"}

\* A plausible slip: every message is wrapped, keyword or not.
enhanced_message_always(msg) ==
    <<"\nCreate reliable Fusion API Python code that will accomplish this task:\n\n">>
    \o msg \o <<"\n\nIMPORTANT: ...">>

\* The f-string that wraps a message that has a code-intent keyword.
enhanced_message(msg) ==
    IF \E k \in CodeIntent : LowerHas(k, msg)
    THEN <<"\nCreate reliable Fusion API Python code that will accomplish this task:\n\n">>
         \o msg \o <<"\n\nIMPORTANT: ...">>
    ELSE msg

\* The outcome of one gateway call: the prompts sent to the provider, then a
\* returned str or a raised error.
Answered(sent, text) == [raised |-> "none", result |-> text, sent |-> sent]

Escaped(sent, kind) == [raised |-> kind, result |-> <<>>, sent |-> sent]

\* A plausible slip: a failed provider call is tried twice more.
process_message_retrying(msg, provider) ==
    LET prompt == enhanced_message(msg)
    IN  IF provider.kind = "reply" THEN Answered(<<prompt>>, provider.text)
        ELSE Answered(<<prompt, prompt, prompt>>,
                      <<"Error communicating with Claude: ", "API Error: ", provider.kind>>)

\* fusionGPT/llm_client.process_message: an inner try around the provider
\* call and an outer try around everything, both except Exception.
process_message(msg, provider) ==
    LET prompt == enhanced_message(msg)
        sent == <<prompt>>
    IN  IF provider.kind = "reply" THEN Answered(sent, provider.text)
        ELSE IF Catches(provider.kind)      \* the inner clause, around the call
        THEN Answered(sent, <<"Error communicating with Claude: ", "API Error: ", provider.kind,
                              "\n">> \o Traceback(provider.kind, <<>>))
        ELSE IF Catches(provider.kind)      \* the outer clause, around everything
        THEN Answered(sent, <<"Error processing message: ", "Processing Error: ",
                              provider.kind, "\n">> \o Traceback(provider.kind, <<>>))
        ELSE Escaped(sent, provider.kind)

\* paletteShow/llm_client.process_message: the message goes out as it is.
ps_process_message(msg, provider) ==
    IF provider.kind = "reply" THEN Answered(<<msg>>, provider.text)
    ELSE IF Catches(provider.kind)
    THEN Answered(<<msg>>, <<"Error communicating with Claude: ", provider.kind>>)
    ELSE Escaped(<<msg>>, provider.kind)

-----------------------------------------------------------------------------
(* entry.enhance_prompt_with_history *)

FixKeywords == {"fix", "error", "issue", "problem", "failed", "resolve", "help", "not working"}

\* error.split("\n")[0] if "\n" in error else error[:100]; the texts of this
\* model that hold no newline are shorter than 100 characters.
error_summary(error) == IF In(<<"\n">>, error) THEN SplitHead(error, <<"\n">>) ELSE error

\* A plausible slip: the test for an empty history is left out.
enhance_prompt_unconditional(msg, errors) ==
    IF \E k \in FixKeywords : LowerHas(k, msg)
    THEN msg \o <<"\n", "\n\nHere are recent errors to avoid:\n">>
         \o Concat([i \in 1..Len(errors) |->
                        <<ToString(i), ". ">> \o error_summary(errors[i]) \o <<"\n">>])
    ELSE msg

enhance_prompt_with_history(msg, errors) ==
    IF errors = <<>> THEN msg
    ELSE IF \E k \in FixKeywords : LowerHas(k, msg)
    THEN msg \o <<"\n", "\n\nHere are recent errors to avoid:\n">>
         \o Concat([i \in 1..Len(errors) |->
                        <<ToString(i), ". ">> \o error_summary(errors[i]) \o <<"\n">>])
    ELSE msg

-----------------------------------------------------------------------------
(* entry.palette_incoming *)

\* What one call of the handler did.
\*   path:       the branch taken
\*   reply:      the response of the gateway, before anything is appended
\*   events:     the gateway calls and code executions, in order
\*   prompts:    the texts sent to the provider
\*   executed:   the code texts handed to execute_code
\*   results:    the strings execute_code returned
\*   returnData: html_args.returnData, None while unset
\*   raised:     what the handler let escape to the host, "none" if nothing
NoTurn ==
    [path |-> "none", msg |-> <<>>, arg2 |-> <<>>, reply |-> <<>>, events |-> <<>>,
     prompts |-> <<>>,
     executed |-> <<>>, results |-> <<>>, returnData |-> None, raised |-> "none"]

\* json.loads(html_args.data): malformed JSON raises JSONDecodeError.
Malformed == [ok |-> FALSE, arg1 |-> <<>>, arg2 |-> <<>>]

Data(arg1, arg2) == [ok |-> TRUE, arg1 |-> arg1, arg2 |-> arg2]

\* user_message.lower().startswith("execute the previous code")
IsExecutePrevious(msg) ==
    msg # <<>> /\ "execute the previous code" \in LowerSubstringsOf(Head(msg))

\* A plausible slip: the request not to execute is never honoured.
SaysDontExecute_never(msg) == FALSE

\* "don't execute" in lower or "do not execute" in lower
SaysDontExecute(msg) == LowerHas("don't execute", msg) \/ LowerHas("do not execute", msg)

is_fixing_error(msg) ==
    \E k \in {"fix", "error", "failed", "issue", "problem", "not working"} : LowerHas(k, msg)

\* A plausible slip: the history is preferred to the code in the message.
code_to_execute_history_first(arg2, codes) ==
    IF codes # <<>> THEN Str(codes[1]) ELSE extract_code(arg2)

\* The code an "execute the previous code" turn runs: that of the secondary
\* field, else the most recent entry of the code history.
code_to_execute(arg2, codes) ==
    LET given == extract_code(arg2)
    IN  IF ~Truthy(given) /\ codes # <<>> THEN Str(codes[1]) ELSE given

\* A plausible slip: the hint is left out and only the tip is given.
suggested_fix_tip_only(result) == <<"**Tip:** ask 'Please fix the error'">>

\* The text appended after the result of a failed execution.
suggested_fix(result) ==
    IF Has("tangent", result) /\ Has("revolve", result)
    THEN <<"**Suggested Fix:** revolve">>
    ELSE IF Has("profile", result) /\ Has("extrude", result)
    THEN <<"**Suggested Fix:** extrude">>
    ELSE IF Has("body", result) /\ Has("boolean", result)
    THEN <<"**Suggested Fix:** boolean">>
    ELSE <<"**Tip:** ask 'Please fix the error'">>

\* A plausible slip: a failure is recorded where it is found and again where
\* the hint is chosen.
record_error_twice(result, errors) ==
    IF Has("Error", result) THEN add_to_history(result, add_to_history(result, errors))
    ELSE errors

\* if "Error" in execution_result: add_to_history(execution_result, errors)
record_error(result, errors) ==
    IF Has("Error", result) THEN add_to_history(result, errors) ELSE errors

\* The handler's effect: the two histories, the files on disk, and the turn.
Handled(codes, errors, files, t) ==
    [codes |-> codes, errors |-> errors, files |-> files, turn |-> t]

\* The outer except Exception of palette_incoming.
outer_except(kind, codes, errors, files, t) ==
    LET error_msg_ == <<"Error processing message: ", kind, "\n">> \o Traceback(kind, <<>>)
    IN  IF Catches(kind)
        THEN Handled(codes, add_to_history(error_msg_, errors), files,
                     [t EXCEPT !.returnData = Str(<<"Error: ">> \o error_msg_)])
        ELSE Handled(codes, errors, files, [t EXCEPT !.raised = kind])

\* The branch for "execute the previous code".
execute_previous(data, beh, codes, errors, files) ==
    LET t == [NoTurn EXCEPT !.path = "execute_previous", !.msg = data.arg1,
                            !.arg2 = data.arg2]
        code == code_to_execute(data.arg2, codes)
    IN  IF ~Truthy(code)
        THEN Handled(codes, errors, files,
                     [t EXCEPT !.returnData = Str(<<"No code found to execute.">>)])
        ELSE LET done == execute_code(code.val, beh, files)
                 ran == [t EXCEPT !.events = <<"execute">>, !.executed = <<code.val>>]
             IN  IF done.out.raised # "none"
                 THEN outer_except(done.out.raised, codes, errors, done.files, ran)
                 ELSE Handled(codes, record_error(done.out.result, errors), done.files,
                              [ran EXCEPT !.results = <<done.out.result>>,
                                          !.returnData =
                                              Str(<<"Execution Result:\n", "fence", "\n">>
                                                  \o done.out.result \o <<"\n", "fence">>)])

\* The normal message flow: one gateway call, then the code of the reply, if
\* any, is recorded and run.
normal_flow(data, provider, beh, codes, errors, files) ==
    LET msg == data.arg1
        enhanced == IF is_fixing_error(msg) THEN enhance_prompt_with_history(msg, errors)
                    ELSE msg
        answer == process_message(enhanced, provider)
        t == [NoTurn EXCEPT !.path = "normal", !.msg = msg, !.arg2 = data.arg2,
                            !.events = [i \in 1..Len(answer.sent) |-> "gateway"],
                            !.prompts = answer.sent]
    IN  IF answer.raised # "none" THEN outer_except(answer.raised, codes, errors, files, t)
        ELSE
        LET response == answer.result
            code == extract_code(response)
            codes2 == IF Truthy(code) THEN add_to_history(code.val, codes) ELSE codes
            got == [t EXCEPT !.reply = response]
        IN  IF ~(Truthy(code) /\ ~SaysDontExecute(msg))
            THEN Handled(codes2, errors, files, [got EXCEPT !.returnData = Str(response)])
            ELSE
            LET done == execute_code(code.val, beh, files)
                ran == [got EXCEPT !.events = Append(t.events, "execute"),
                                 !.executed = <<code.val>>]
                result == done.out.result
            IN  IF done.out.raised = "none"
                THEN Handled(codes2, record_error(result, errors), done.files,
                             [ran EXCEPT !.results = <<result>>,
                                         !.returnData =
                                             Str(response
                                                 \o <<"\n\n**Execution Result:**\n", "fence", "\n">>
                                                 \o result \o <<"\n", "fence">>
                                                 \o (IF Has("Error", result)
                                                     THEN suggested_fix(result) ELSE <<>>))])
                ELSE IF Catches(done.out.raised)
                THEN \* the inner except Exception around the execution
                     LET error_msg_ == <<"Error during execution: ", done.out.raised, "\n">>
                                       \o Traceback(done.out.raised, <<>>)
                     IN  Handled(codes2, add_to_history(error_msg_, errors), done.files,
                                 [ran EXCEPT !.returnData =
                                                 Str(response \o <<"\n\n**Execution Error:**\n",
                                                                   "fence", "\n">>
                                                     \o error_msg_ \o <<"\n", "fence">>)])
                ELSE outer_except(done.out.raised, codes2, errors, done.files, ran)

palette_incoming(data, provider, beh, codes, errors, files) ==
    IF ~data.ok
    THEN outer_except("JSONDecodeError", codes, errors, files,
                      [NoTurn EXCEPT !.path = "malformed"])
    ELSE IF IsExecutePrevious(data.arg1)
    THEN execute_previous(data, beh, codes, errors, files)
    ELSE normal_flow(data, provider, beh, codes, errors, files)

-----------------------------------------------------------------------------
(* The retriever harness: FusionAPIDocs instances constructed over a cache  *)
(* file in any state, days passing in between, and queries looked up.       *)

\* Tables an earlier version may have left in the cache file.
OldDocs ==
    [api_docs |-> {"ExtrudeFeatures"}, common_errors |-> {"ASM_PATH_TANGENT"},
     best_practices |-> {}]

\* A cache file with the errors but an empty documentation table.
HalfDocs == [NoDocs EXCEPT !.common_errors = {"PROFILE_NOT_CLOSED"}]

CachedTables == {NoDocs, HalfDocs, OldDocs, StaticDocs}

CacheFiles ==
    {NoCacheFile(w) : w \in BOOLEAN}
    \cup [exists : {TRUE}, age : 0..MaxAgeDays, readable : BOOLEAN, data : CachedTables,
          writable : BOOLEAN]

Queries ==
    {<<"hello">>, <<"revolve a profile">>, <<"Extrude The Sketch">>, <<"add a feature">>,
     <<"add a feature", "revolve a profile">>}

\* No instance: nothing constructed, or the process that held it has ended.
\*   found:  the cache file as the constructor found it
\*   query, digest: the last query looked up and the context made for it
NoInstance ==
    [constructed |-> FALSE, tables |-> NoDocs, found |-> NoCacheFile(TRUE), query |-> <<>>,
     digest |-> <<>>]

DocsIdle ==
    /\ cache = NoCacheFile(TRUE)
    /\ docs = NoInstance
    /\ launches = 0

-----------------------------------------------------------------------------
(* The add-in's user interface: the command definition and the control     *)
(* with the command's id, and the palettes with the palette's id, first    *)
(* found first.  A palette carries its visibility, its docking state and   *)
(* the number of handlers registered on each of its three events.          *)

MaxStarts == 2

MaxClicks == 2

MaxMessages == 6

PALETTE_DOCKING == "right"

DockingStates == {"floating", "left", PALETTE_DOCKING}

NoUi == [commandDefinitions |-> FALSE, controls |-> FALSE, palettes |-> <<>>]

\* palettes.add(...) followed by the three futil.add_handler calls; the host
\* chooses where the new palette is docked.
NewPalette(dock) ==
    [isVisible |-> TRUE, dockingState |-> dock, closed |-> 1, navigatingURL |-> 1,
     incomingFromHTML |-> 1]

\* entry.start: the definition and the control are added.
start(u) == [u EXCEPT !.commandDefinitions = TRUE, !.controls = TRUE]

stop_keeps_palette(u) == [u EXCEPT !.commandDefinitions = FALSE, !.controls = FALSE]

\* entry.stop: the control, the definition and the palette found by id are
\* deleted, each if present.
stop(u) ==
    [u EXCEPT !.commandDefinitions = FALSE, !.controls = FALSE,
              !.palettes = IF u.palettes # <<>> THEN Tail(u.palettes) ELSE <<>>]

palette_is_None_always(u) == TRUE

\* palettes.itemById(PALETTE_ID) is None
palette_is_None(u) == u.palettes = <<>>

\* entry.command_execute: a palette is created, with its handlers, only when
\* none is found; a floating palette is docked; the palette is shown.
command_execute(u, dock) ==
    LET found == IF palette_is_None(u) THEN Append(u.palettes, NewPalette(dock))
                 ELSE u.palettes
        at == IF palette_is_None(u) THEN Len(found) ELSE 1
        docked == IF found[at].dockingState = "floating" THEN PALETTE_DOCKING
                  ELSE found[at].dockingState
    IN  [u EXCEPT !.palettes = [found EXCEPT ![at].dockingState = docked,
                                            ![at].isVisible = TRUE]]

\* The user closes the palette: the host hides it and entry.palette_closed
\* writes a log line.
palette_closed(u) == [u EXCEPT !.palettes[1].isVisible = FALSE]

\* entry.command_created: the execute and the destroy handler join the list.
command_created(handlers) == handlers + 2

command_destroy_clearing(handlers, codes, errors) ==
    [local_handlers |-> 0, codes |-> <<>>, errors |-> <<>>]

\* entry.command_destroy: the list of handlers is replaced by an empty one;
\* the histories are not named.
command_destroy(handlers, codes, errors) ==
    [local_handlers |-> 0, codes |-> codes, errors |-> errors]

UiIdle ==
    /\ ui = NoUi
    /\ local_handlers = 0
    /\ command = "none"
    /\ running = FALSE
    /\ starts = 0
    /\ clicks = 0

\* The add-in started, the button clicked once and the command over: the
\* palette is open.
UiOpen ==
    /\ ui = command_execute(start(NoUi), PALETTE_DOCKING)
    /\ local_handlers = 0
    /\ command = "none"
    /\ running = TRUE
    /\ starts = 1
    /\ clicks = 1

-----------------------------------------------------------------------------
(* The extractor harness: every text up to MaxLen tokens and longer texts   *)
(* with two blocks, one extraction.                                         *)

Alphabet == {"fence", "python", "x", " ", "U+03C0", "U+00E9"}

Texts == UNION {[1..n -> Alphabet] : n \in 0..MaxLen}

\* Longer texts with two blocks, a bare one and a tagged one, in either
\* order, with or without text between them.
BareBlocks == {<<"fence">> \o a \o <<"fence">> : a \in {<<"x">>, <<" ", "x", "x">>}}

TaggedBlocks ==
    {<<"fence", "python">> \o b \o <<"fence">> :
        b \in {<<" ", "U+03C0">>, <<"x", " ", "x", " ">>, <<>>}}

TwoBlockTexts ==
    {l \o b1 \o m \o b2 \o r :
        l \in {<<>>, <<"x">>}, m \in {<<>>, <<" ">>, <<"x", " ">>}, r \in {<<>>, <<"x">>},
        b1 \in BareBlocks \cup TaggedBlocks,
        b2 \in BareBlocks \cup TaggedBlocks}

NotRun == [by |-> "none", out |-> None]

NoCall == [by |-> "none", msg |-> <<>>, provider |-> Reply(<<>>), out |-> Answered(<<>>, <<>>)]

NoRun == [by |-> "none", code |-> <<>>, beh |-> [load |-> "ok", call |-> "ok", msg |-> <<>>],
          out |-> Returned(<<>>, 0, 0)]

ExtractorIdle ==
    /\ message = <<>>
    /\ extracted = NotRun

HistoryIdle ==
    /\ history_list = <<>>
    /\ added = <<>>

PanelIdle ==
    /\ recent_code_history = <<>>
    /\ recent_error_history = <<>>
    /\ turn = NoTurn
    /\ turns = 0

InitExtract ==
    /\ message \in Texts \cup TwoBlockTexts
    /\ extracted = NotRun
    /\ HistoryIdle
    /\ run = NoRun
    /\ call = NoCall
    /\ temp_files = {}
    /\ sys_path = <<>>
    /\ PanelIdle
    /\ DocsIdle
    /\ UiIdle

ExtractFusionGPT ==
    /\ extracted.by = "none"
    /\ extracted' = [by |-> "fusionGPT", out |-> extract_code(message)]
    /\ UNCHANGED <<message, historyVars, run, call, temp_files, sys_path, panelVars, docsVars,
                   uiVars>>

ExtractPaletteShow ==
    /\ extracted.by = "none"
    /\ extracted' = [by |-> "paletteShow", out |-> ps_extract_code(message)]
    /\ UNCHANGED <<message, historyVars, run, call, temp_files, sys_path, panelVars, docsVars,
                   uiVars>>

NextExtract == ExtractFusionGPT \/ ExtractPaletteShow

SpecExtract == InitExtract /\ [][NextExtract]_vars

-----------------------------------------------------------------------------
(* The history harness: add_to_history on a list that starts empty. *)

Items == {"a", "b", "c"}

InitHistory ==
    /\ HistoryIdle
    /\ ExtractorIdle
    /\ run = NoRun
    /\ call = NoCall
    /\ temp_files = {}
    /\ sys_path = <<>>
    /\ PanelIdle
    /\ DocsIdle
    /\ UiIdle

AddToHistory(item) ==
    /\ Len(added) < MaxAdds
    /\ history_list' = add_to_history(item, history_list)
    /\ added' = Append(added, item)
    /\ UNCHANGED <<extractorVars, run, call, temp_files, sys_path, panelVars, docsVars, uiVars>>

NextHistory == \E item \in Items : AddToHistory(item)

SpecHistory == InitHistory /\ [][NextHistory]_vars

-----------------------------------------------------------------------------
(* The runner harness: one execute_code call on every code text built from  *)
(* the parts below, under every behaviour of the generated code.            *)

EntryParts == {<<>>, <<"def run(context):">>, <<"def run(ctx):">>, <<"# def run(context)">>}

HandlingParts == {<<>>, <<"try:">>, <<"try:", "except:">>}

AppParts == {<<>>, <<"app = adsk.core.Application.get()">>}

UiParts == {<<>>, <<"ui = app.userInterface">>}

BodyParts ==
    {<<"x">>, <<"revolveFeatures.add(axis)">>, <<"revolveFeatures.add(axis)", "# check">>,
     <<"extrudeFeatures.add(prof)">>, <<"U+00E9">>, <<"ValueInput.createByReal('1 cm')">>,
     <<"# handler">>, <<"global handlers">>}

Codes ==
    {e \o h \o a \o u \o b :
        e \in EntryParts, h \in HandlingParts, a \in AppParts, u \in UiParts, b \in BodyParts}

InitRun ==
    /\ \E code \in Codes, beh \in Behaviours : run = [NoRun EXCEPT !.code = code, !.beh = beh]
    /\ temp_files = {}
    /\ sys_path = <<>>
    /\ call = NoCall
    /\ ExtractorIdle
    /\ HistoryIdle
    /\ PanelIdle
    /\ DocsIdle
    /\ UiIdle

ExecuteFusionGPT ==
    /\ run.by = "none"
    /\ LET done == execute_code(run.code, run.beh, temp_files)
       IN  /\ run' = [run EXCEPT !.by = "fusionGPT", !.out = done.out]
           /\ temp_files' = done.files
    /\ UNCHANGED <<extractorVars, historyVars, call, sys_path, panelVars, docsVars, uiVars>>

\* The wrapped unit's own top-level statements cannot raise SystemExit.
ExecutePaletteShow ==
    /\ run.by = "none"
    /\ run.beh.load # "SystemExit"
    /\ LET done == ps_execute_code(run.code, run.beh, temp_files, sys_path)
       IN  /\ run' = [run EXCEPT !.by = "paletteShow", !.out = done.out]
           /\ temp_files' = done.files
           /\ sys_path' = done.path
    /\ UNCHANGED <<extractorVars, historyVars, call, panelVars, docsVars, uiVars>>

NextRun == ExecuteFusionGPT \/ ExecutePaletteShow

SpecRun == InitRun /\ [][NextRun]_vars

-----------------------------------------------------------------------------
(* The gateway harness: one process_message call on every message of up to  *)
(* MaxWords words, under every answer of the provider.                      *)

Words ==
    {"hello", "create a cube", "Make A Cube", "remodel it", "fix the error",
     "revolve a profile", "Extrude The Sketch"}

UserMessages == UNION {[1..n -> Words] : n \in 0..MaxWords}

SamplePython ==
    <<"def run(context):", "try:", "except:", "app = adsk.core.Application.get()",
      "ui = app.userInterface">>

Replies ==
    {<<"Sure.">>, <<"Here:", "fence", "python">> \o SamplePython \o <<"x", "fence">>}

ProviderAnswers == {Reply(r) : r \in Replies} \cup {Failure(k) : k \in ProviderErrors}

InitCall ==
    /\ \E msg \in UserMessages, p \in ProviderAnswers :
           call = [NoCall EXCEPT !.msg = msg, !.provider = p]
    /\ run = NoRun
    /\ temp_files = {}
    /\ sys_path = <<>>
    /\ ExtractorIdle
    /\ HistoryIdle
    /\ PanelIdle
    /\ DocsIdle
    /\ UiIdle

CallFusionGPT ==
    /\ call.by = "none"
    /\ call' = [call EXCEPT !.by = "fusionGPT", !.out = process_message(call.msg, call.provider)]
    /\ UNCHANGED <<extractorVars, historyVars, run, temp_files, sys_path, panelVars, docsVars,
                   uiVars>>

CallPaletteShow ==
    /\ call.by = "none"
    /\ call' = [call EXCEPT !.by = "paletteShow",
                            !.out = ps_process_message(call.msg, call.provider)]
    /\ UNCHANGED <<extractorVars, historyVars, run, temp_files, sys_path, panelVars, docsVars,
                   uiVars>>

NextCall == CallFusionGPT \/ CallPaletteShow

SpecCall == InitCall /\ [][NextCall]_vars

-----------------------------------------------------------------------------
(* The panel: inbound messages handled one at a time, each to completion.   *)

PanelMessages ==
    {<<"hello">>, <<"help">>, <<"create a cube">>, <<"create a cube", "don't execute">>,
     <<"create a cube", "Do Not Execute">>,
     <<"fix the error">>, <<"execute the previous code">>,
     <<"Execute The Previous Code", "hello">>}

Fenced(code) == <<"fence", "python">> \o code \o <<"fence">>

\* The secondary field: absent, a fenced block, text with no fence, or text
\* with a fence that is never closed.
SecondaryFields == {<<>>, Fenced(SamplePython \o <<"x">>), <<"x">>, <<"fence", "x">>}

PanelReplies ==
    {<<"Sure.">>,
     <<"Here:">> \o Fenced(SamplePython \o <<"revolveFeatures.add(axis)">>) \o <<"Done.">>,
     <<"Here:">> \o Fenced(<<"# def run(context)", "try:", "except:",
                              "app = adsk.core.Application.get()",
                              "ui = app.userInterface", "extrudeFeatures.add(prof)">>),
     Fenced(<<"x">>)}

PanelAnswers == {Reply(r) : r \in PanelReplies} \cup {Failure("APIConnectionError")}

Quiet == [load |-> "ok", call |-> "ok", msg |-> <<"boom">>]

PanelBehaviours ==
    {Quiet,
     [load |-> "ok", call |-> "value", msg |-> <<"boom">>],
     [load |-> "ok", call |-> "error_value", msg |-> <<"boom">>],
     [load |-> "ok", call |-> "Exception", msg |-> <<"axis is tangent">>],
     [load |-> "ok", call |-> "Exception", msg |-> <<"invalid profile">>],
     [load |-> "ok", call |-> "SystemExit", msg |-> <<"boom">>],
     [load |-> "Exception", call |-> "ok", msg |-> <<"boom">>]}

InitPanel ==
    /\ PanelIdle
    /\ DocsIdle
    /\ UiOpen
    /\ temp_files = {}
    /\ sys_path = <<>>
    /\ run = NoRun
    /\ call = NoCall
    /\ ExtractorIdle
    /\ HistoryIdle

\* One inbound message handled to completion.
PaletteIncoming(data, provider, beh) ==
    /\ turns < MaxTurns
    /\ \E h \in {palette_incoming(data, provider, beh, recent_code_history,
                                   recent_error_history, temp_files)} :
           /\ recent_code_history' = h.codes
           /\ recent_error_history' = h.errors
           /\ temp_files' = h.files
           /\ turn' = h.turn
    /\ turns' = turns + 1
    /\ UNCHANGED <<extractorVars, historyVars, run, call, sys_path, docsVars, uiVars>>

\* The inputs are enumerated as far as the branch taken reads them: the
\* provider answers in the normal flow only, and the generated code has a
\* behaviour only where code is run.
MalformedMessage == PaletteIncoming(Malformed, Failure("APIConnectionError"), Quiet)

ExecutePreviousMessage ==
    \E m \in {m \in PanelMessages : IsExecutePrevious(m)}, a \in SecondaryFields,
       beh \in PanelBehaviours :
        PaletteIncoming(Data(m, a), Failure("APIConnectionError"), beh)

NormalMessage ==
    \E m \in {m \in PanelMessages : ~IsExecutePrevious(m)}, provider \in PanelAnswers :
        \E beh \in IF Truthy(extract_code(provider.text)) THEN PanelBehaviours ELSE {Quiet} :
            PaletteIncoming(Data(m, <<>>), provider, beh)

Next == MalformedMessage \/ ExecutePreviousMessage \/ NormalMessage

Init == InitPanel

Spec == Init /\ [][Next]_vars

-----------------------------------------------------------------------------
(* The retriever harness, continued: its initial states and its steps. *)

InitDocs ==
    /\ cache \in CacheFiles
    /\ docs = NoInstance
    /\ launches = 0
    /\ ExtractorIdle
    /\ HistoryIdle
    /\ run = NoRun
    /\ call = NoCall
    /\ temp_files = {}
    /\ sys_path = <<>>
    /\ recent_code_history = <<>>
    /\ recent_error_history = <<>>
    /\ turn = NoTurn
    /\ turns = 0
    /\ UiIdle

\* FusionAPIDocs(): __init__ and _load_or_fetch_data
NewFusionAPIDocs ==
    /\ ~docs.constructed
    /\ launches < MaxLaunches
    /\ \E d \in {load_or_fetch_data(cache)} :
           /\ docs' = [NoInstance EXCEPT !.constructed = TRUE, !.tables = d.tables,
                                         !.found = cache]
           /\ cache' = d.cache
    /\ launches' = launches + 1
    /\ UNCHANGED <<extractorVars, historyVars, run, call, temp_files, sys_path, panelVars, uiVars>>

\* format_as_context(retrieve_relevant_docs(query))
RetrieveRelevantDocs(query) ==
    /\ docs.constructed
    /\ docs' = [docs EXCEPT !.query = query,
                            !.digest = format_as_context(
                                           retrieve_relevant_docs(query, docs.tables))]
    /\ UNCHANGED <<extractorVars, historyVars, run, call, temp_files, sys_path, panelVars,
                   cache, launches, uiVars>>

\* A day goes by: the cache file, if there is one, is a day older.
DayPasses ==
    /\ cache.exists
    /\ cache.age < MaxAgeDays
    /\ cache' = [cache EXCEPT !.age = cache.age + 1]
    /\ UNCHANGED <<extractorVars, historyVars, run, call, temp_files, sys_path, panelVars,
                   docs, launches, uiVars>>

\* The process ends and the instance with it; the cache file stays.
ProcessEnds ==
    /\ docs.constructed
    /\ docs' = NoInstance
    /\ UNCHANGED <<extractorVars, historyVars, run, call, temp_files, sys_path, panelVars,
                   cache, launches, uiVars>>

NextDocs ==
    \/ NewFusionAPIDocs
    \/ \E query \in Queries : RetrieveRelevantDocs(query)
    \/ DayPasses
    \/ ProcessEnds

SpecDocs == InitDocs /\ [][NextDocs]_vars

-----------------------------------------------------------------------------
(* The add-in's life: started and stopped by the host, the button clicked,  *)
(* the palette closed, and messages arriving from the palette while it is   *)
(* shown.  The messages are few, so that the histories fill and overflow.   *)

PluginInputs ==
    {[data |-> Malformed, provider |-> Failure("APIConnectionError"), beh |-> Quiet],
     [data |-> Data(<<"hello">>, <<>>), provider |-> Reply(<<"Sure.">>), beh |-> Quiet],
     [data |-> Data(<<"create a cube">>, <<>>),
      provider |-> Reply(Fenced(SamplePython \o <<"revolveFeatures.add(axis)">>)),
      beh |-> [load |-> "ok", call |-> "Exception", msg |-> <<"axis is tangent">>]]}

InitPlugin ==
    /\ PanelIdle
    /\ DocsIdle
    /\ UiIdle
    /\ temp_files = {}
    /\ sys_path = <<>>
    /\ run = NoRun
    /\ call = NoCall
    /\ ExtractorIdle
    /\ HistoryIdle

\* The host runs the add-in: start()
Start ==
    /\ ~running
    /\ starts < MaxStarts
    /\ ui' = start(ui)
    /\ running' = TRUE
    /\ starts' = starts + 1
    /\ UNCHANGED <<extractorVars, historyVars, run, call, temp_files, sys_path, panelVars,
                   docsVars, local_handlers, command, clicks>>

\* The host stops the add-in: stop().  The execute event follows the created
\* event at once, so the add-in is not stopped between the two.
Stop ==
    /\ running
    /\ command # "created"
    /\ ui' = stop(ui)
    /\ running' = FALSE
    /\ UNCHANGED <<extractorVars, historyVars, run, call, temp_files, sys_path, panelVars,
                   docsVars, local_handlers, command, starts, clicks>>

\* The user clicks the button: command_created
CommandCreated ==
    /\ ui.commandDefinitions
    /\ ui.controls
    /\ command = "none"
    /\ clicks < MaxClicks
    /\ local_handlers' = command_created(local_handlers)
    /\ command' = "created"
    /\ clicks' = clicks + 1
    /\ UNCHANGED <<extractorVars, historyVars, run, call, temp_files, sys_path, panelVars,
                   docsVars, ui, running, starts>>

\* command_execute
CommandExecute ==
    /\ command = "created"
    /\ \E dock \in DockingStates : ui' = command_execute(ui, dock)
    /\ command' = "executed"
    /\ UNCHANGED <<extractorVars, historyVars, run, call, temp_files, sys_path, panelVars,
                   docsVars, local_handlers, running, starts, clicks>>

\* The command terminates: command_destroy
CommandDestroy ==
    /\ command = "executed"
    /\ \E d \in {command_destroy(local_handlers, recent_code_history,
                                 recent_error_history)} :
           /\ local_handlers' = d.local_handlers
           /\ recent_code_history' = d.codes
           /\ recent_error_history' = d.errors
    /\ command' = "none"
    /\ UNCHANGED <<extractorVars, historyVars, run, call, temp_files, sys_path, turn, turns,
                   docsVars, ui, running, starts, clicks>>

\* The user closes the palette: palette_closed
PaletteClosed ==
    /\ ui.palettes # <<>>
    /\ ui.palettes[1].isVisible
    /\ ui.palettes[1].closed > 0
    /\ ui' = palette_closed(ui)
    /\ UNCHANGED <<extractorVars, historyVars, run, call, temp_files, sys_path, panelVars,
                   docsVars, local_handlers, command, running, starts, clicks>>

\* The page in the shown palette sends a message: palette_incoming
PluginMessage ==
    /\ ui.palettes # <<>>
    /\ ui.palettes[1].isVisible
    /\ ui.palettes[1].incomingFromHTML > 0
    /\ turns < MaxMessages
    /\ \E i \in PluginInputs :
           \E h \in {palette_incoming(i.data, i.provider, i.beh, recent_code_history,
                                      recent_error_history, temp_files)} :
               /\ recent_code_history' = h.codes
               /\ recent_error_history' = h.errors
               /\ temp_files' = h.files
               /\ turn' = h.turn
    /\ turns' = turns + 1
    /\ UNCHANGED <<extractorVars, historyVars, run, call, sys_path, docsVars, uiVars>>

NextPlugin ==
    \/ Start
    \/ Stop
    \/ CommandCreated
    \/ CommandExecute
    \/ CommandDestroy
    \/ PaletteClosed
    \/ PluginMessage

SpecPlugin == InitPlugin /\ [][NextPlugin]_vars

-----------------------------------------------------------------------------
(* Claims about add_to_history (checked under SpecHistory) *)

\* C1: after any sequence of add_to_history calls on a list that started
\* empty, the list holds exactly the min(n, MAX_HISTORY_ITEMS) most recently
\* added items, most recent first; so its length never exceeds the maximum
\* and the item evicted by insertion MAX+1 is the first one inserted.
C1_HistoryHoldsMostRecent ==
    LET n == Len(added)
        k == IF n < MAX_HISTORY_ITEMS THEN n ELSE MAX_HISTORY_ITEMS
    IN  /\ Len(history_list) = k
        /\ Len(history_list) <= MAX_HISTORY_ITEMS
        /\ \A i \in 1..k : history_list[i] = added[n - i + 1]

\* One insertion past the maximum: the first item is gone, five remain.
C1_Witness ==
    /\ Len(added) = MAX_HISTORY_ITEMS + 1
    /\ Len(history_list) = MAX_HISTORY_ITEMS
    /\ history_list[MAX_HISTORY_ITEMS] = added[2]
    /\ added[1] # added[2]

-----------------------------------------------------------------------------
(* Claims about extract_code (checked under SpecExtract) *)

Fences(msg) == {i \in 1..Len(msg) : msg[i] = "fence"}

\* An opening fence, tagged or bare, with a closing fence somewhere after it.
HasCompleteBlock(msg) == Cardinality(Fences(msg)) >= 2

\* Positions of a fence immediately followed by the language tag.
TaggedFences(msg) == {i \in Fences(msg) : i < Len(msg) /\ msg[i + 1] = "python"}

\* A tagged opening fence followed later by a closing fence.
HasTaggedBlock(msg) ==
    \E i \in TaggedFences(msg) : \E j \in Fences(msg) : j > i

\* The text between the first tagged opening fence and the next fence marker.
TaggedInterior(msg) ==
    LET open == Min(TaggedFences(msg))
        close == Min({j \in Fences(msg) : j > open})
    IN  [k \in 1..(close - open - 2) |-> msg[open + 1 + k]]

\* s without its leading and trailing whitespace.
RECURSIVE Trimmed(_)
Trimmed(s) ==
    IF s = <<>> THEN s
    ELSE IF Head(s) = " " THEN Trimmed(Tail(s))
    ELSE IF s[Len(s)] = " " THEN Trimmed(SubSeq(s, 1, Len(s) - 1))
    ELSE s

\* The ASCII text that stands in for one character of extracted code.
AsciiFor(t) ==
    CASE t = "U+03C0" -> <<"pi">>
      [] t = "U+00E9" -> <<" ", "/* Unicode character removed */", " ">>
      [] OTHER -> <<t>>

RECURSIVE AsciiText(_)
AsciiText(s) == IF s = <<>> THEN <<>> ELSE AsciiFor(Head(s)) \o AsciiText(Tail(s))

\* C6 (as claimed): a text with no complete fenced block yields nothing.  An
\* empty string is counted as nothing here, as the callers count it.
C6_NoCompleteBlockNoCode ==
    (extracted.by # "none" /\ ~HasCompleteBlock(message)) => ~Truthy(extracted.out)

\* C7 (as claimed): with a tagged block present, the result is exactly the
\* trimmed interior of the first tagged block, no other character changed.
C7_ExactInterior ==
    (extracted.by = "fusionGPT" /\ HasTaggedBlock(message))
        => extracted.out = Str(Trimmed(TaggedInterior(message)))

\* C7 (amended): with a tagged block present, the result is the trimmed
\* interior of the first tagged block with every non-ASCII character replaced
\* by its ASCII stand-in; ASCII characters are unchanged.
C7_CleanedInterior ==
    (extracted.by = "fusionGPT" /\ HasTaggedBlock(message))
        => extracted.out = Str(AsciiText(Trimmed(TaggedInterior(message))))

\* A tagged block whose interior is whitespace and a non-ASCII character has
\* been extracted: trimmed, and the character replaced.
C7_Witness ==
    /\ extracted.by = "fusionGPT"
    /\ HasTaggedBlock(message)
    /\ TaggedInterior(message) = <<" ", "U+03C0">>
    /\ extracted.out = Str(<<"pi">>)

-----------------------------------------------------------------------------
(* Claims about execute_code (checked under SpecRun) *)

Tokens(text) == {text[i] : i \in 1..Len(text)}

\* The code text lacks a required structural marker.
HasBlockingIssue(code) ==
    \/ Tokens(code) \cap {"def run(context):", "# def run(context)"} = {}
    \/ ~({"try:", "except:"} \subseteq Tokens(code))
    \/ "app = adsk.core.Application.get()" \notin Tokens(code)
    \/ "ui = app.userInterface" \notin Tokens(code)

\* The generated code raised while it was loaded or run.  (In paletteShow
\* the only fault at load is the wrapped unit failing to compile.)
Faulted(r) ==
    /\ r.out.loads >= 1
    /\ \/ r.by = "fusionGPT" /\ r.beh.load \in Raises
       \/ r.by = "paletteShow" /\ r.beh.load = "Exception"
       \/ r.beh.call \in Raises

\* C4: when fusionGPT's execute_code ends, on any exit path, no temporary
\* code unit created by that call exists any more.
C4_TempUnitRemoved ==
    run.by = "fusionGPT" => run.out.created \cap temp_files = {}

\* A unit was created, the generated code raised, and the unit is gone.
C4_Witness ==
    /\ run.by = "fusionGPT"
    /\ run.out.created # {}
    /\ Faulted(run)
    /\ temp_files = {}

C10_EveryFaultReturned ==
    (run.by # "none" /\ Faulted(run)) =>
        /\ run.out.raised = "none"
        /\ Has("Error", run.out.result)
        /\ "Traceback (most recent call last):" \in Tokens(run.out.result)

-----------------------------------------------------------------------------
(* Claims about process_message (checked under SpecCall) *)

\* C8: process_message never raises to its caller: whatever the provider
\* call comes to, it returns a string, and after any failure of the call the
\* string starts with an error marker.
C8_AlwaysAString ==
    call.by # "none" =>
        /\ call.out.raised = "none"
        /\ call.provider.kind = "reply" => call.out.result = call.provider.text
        /\ call.provider.kind # "reply" =>
              /\ call.out.result # <<>>
              /\ "Error" \in SubstringsOf(Head(call.out.result))

\* A malformed reply (no content block) came back as an error string.
C8_Witness ==
    /\ call.by = "fusionGPT"
    /\ call.provider.kind = "IndexError"
    /\ call.out.raised = "none"
    /\ Head(call.out.result) = "Error communicating with Claude: "

-----------------------------------------------------------------------------
(* Claims about the panel controller (checked under Spec) *)

GatewayCalls(t) == Cardinality({i \in 1..Len(t.events) : t.events[i] = "gateway"})

\* The executions of turn t that came before its event i and failed.
FailuresBefore(t, i) ==
    LET execs == {j \in 1..(i - 1) : t.events[j] = "execute"}
    IN  Cardinality({k \in 1..Len(t.results) : k <= Cardinality(execs)
                                               /\ Has("Error", t.results[k])})

\* The canned hint for a failure text that names a known pair of keywords.
KnownHint(result) ==
    IF Has("tangent", result) /\ Has("revolve", result) THEN "**Suggested Fix:** revolve"
    ELSE IF Has("profile", result) /\ Has("extrude", result) THEN "**Suggested Fix:** extrude"
    ELSE "none"

\* Auto-execution in turn t failed with a text that names a known pair of
\* keywords ("revolve" with "tangent", "extrude" with "profile").
FailedOnKnownPattern(t) ==
    /\ t.path = "normal"
    /\ t.results # <<>>
    /\ Has("Error", t.results[1])
    /\ KnownHint(t.results[1]) # "none"

\* s ends with the text tail.
EndsWith(s, tail) ==
    Len(s) >= Len(tail) /\ SubSeq(s, Len(s) - Len(tail) + 1, Len(s)) = tail

\* C2: handling one inbound message makes at most two gateway calls, and no
\* gateway call follows a second failed execution of the same turn.
C2_AtMostTwoGatewayCalls ==
    /\ GatewayCalls(turn) <= 2
    /\ Len(turn.prompts) = GatewayCalls(turn)
    /\ \A i \in 1..Len(turn.events) :
           turn.events[i] = "gateway" => FailuresBefore(turn, i) < 2

\* A turn that called the gateway and whose execution then failed.
C2_Witness ==
    /\ turn.path = "normal"
    /\ turn.events = <<"gateway", "execute">>
    /\ Has("Error", turn.results[1])

C11_AlwaysRepliesNothingEscapes ==
    turn.path # "none" =>
        /\ turn.returnData.some
        /\ turn.raised = "none"

\* The runner of turn t raised a fault whose trace holds "tangent" while
\* running code whose text holds "revolve", and returned the trace.
TangentFaultInRevolve(t, msg) ==
    /\ t.executed # <<>>
    /\ t.results # <<>>
    /\ Has("revolve", t.executed[1])
    /\ Has("tangent", Traceback("Exception", msg))
    /\ In(Traceback("Exception", msg), t.results[1])

ResultBlock(result) == <<"\n\n**Execution Result:**\n", "fence", "\n">> \o result \o <<"\n", "fence">>

\* The code of the reply was run and its entry point returned.
EntryPointReturned(t) ==
    /\ t.path = "normal"
    /\ Truthy(extract_code(t.reply))
    /\ t.results # <<>>
    /\ Head(t.results[1]) = "Code executed successfully."

\* C13 (as claimed): in a normal turn whose reply holds a fenced block that
\* runs successfully, the outbound text is the reply followed by the
\* Execution Result block that reports "executed successfully", and nothing
\* comes after that block.
C13_ReplyThenResultOnly ==
    EntryPointReturned(turn) =>
        turn.returnData = Str(turn.reply \o ResultBlock(turn.results[1]))

-----------------------------------------------------------------------------
(* Further claims about process_message (checked under SpecCall) *)

\* The words of the gateway harness that hold a code-intent keyword, in any
\* letter case and anywhere in the word ("remodel" holds "model").
CodeIntentWords == {"create a cube", "Make A Cube", "remodel it"}

HasCodeIntentWord(msg) == \E i \in 1..Len(msg) : msg[i] \in CodeIntentWords

\* The explicit code-generation request built around a message.
CodeRequest(msg) ==
    <<"\nCreate reliable Fusion API Python code that will accomplish this task:\n\n">>
    \o msg \o <<"\n\nIMPORTANT: ...">>

\* C14 (as claimed): the formatter rewrites the message into a
\* code-generation request exactly when it lacks every code-intent keyword,
\* and forwards a message that holds one unmodified.
C14_RewritesWhenKeywordLacking ==
    call.by = "fusionGPT" =>
        call.out.sent = <<IF ~HasCodeIntentWord(call.msg) THEN CodeRequest(call.msg)
                          ELSE call.msg>>

\* C14 (amended): the formatter rewrites the message into a code-generation
\* request exactly when it holds a code-intent keyword (as a substring, in
\* any letter case), and forwards a message that holds none unmodified.
C14_RewritesWhenKeywordPresent ==
    call.by = "fusionGPT" =>
        call.out.sent = <<IF HasCodeIntentWord(call.msg) THEN CodeRequest(call.msg)
                          ELSE call.msg>>

\* A message with a capitalised keyword went out as a code-generation
\* request.
C14_Witness ==
    /\ call.by = "fusionGPT"
    /\ call.msg = <<"hello", "Make A Cube">>
    /\ call.out.sent = <<CodeRequest(<<"hello", "Make A Cube">>)>>

-----------------------------------------------------------------------------
(* Further claims about the panel controller (checked under Spec) *)

\* The words of the panel's messages that hold a fix-intent keyword of the
\* panel controller (fix, error, failed, issue, problem, not working).
FixIntentWords == {"fix the error"}

HasFixIntentWord(msg) == \E i \in 1..Len(msg) : msg[i] \in FixIntentWords

\* The first line of a recorded error.
RECURSIVE FirstLine(_)
FirstLine(error) ==
    IF error = <<>> \/ Head(error) = "\n" THEN <<>>
    ELSE <<Head(error)>> \o FirstLine(Tail(error))

\* The context derived from the recorded errors: a heading, then the first
\* line of each error, numbered, most recent first.
RECURSIVE ErrorLines(_, _)
ErrorLines(errors, i) ==
    IF i > Len(errors) THEN <<>>
    ELSE <<ToString(i), ". ">> \o FirstLine(errors[i]) \o <<"\n">> \o ErrorLines(errors, i + 1)

ErrorContext(errors) ==
    <<"\n", "\n\nHere are recent errors to avoid:\n">> \o ErrorLines(errors, 1)

-----------------------------------------------------------------------------
(* Claims about the documentation digest (checked under SpecCall) *)

\* The instruction that goes to the provider with a prompt.
Instruction(prompt) == system_message \o prompt

\* C16 (as claimed): when the user text holds a known domain keyword, the
\* documentation digest retrieved for it is part of the instruction sent to
\* the gateway.
C16_DigestInInstruction ==
    (call.by = "fusionGPT" /\ extract_key_terms(call.msg) # <<>>) =>
        \E i \in 1..Len(call.out.sent) :
            In(format_as_context(retrieve_relevant_docs(call.msg, StaticDocs)),
               Instruction(call.out.sent[i]))

-----------------------------------------------------------------------------
(* Further claims about execute_code (checked under SpecRun) *)

\* The generated code raises nothing, however often it is run.
RunsClean(beh) == beh.load = "ok" /\ beh.call \notin Raises

\* C17 (as claimed): code that defines no entry point run is executed
\* directly through the fallback path and the fallback result is returned;
\* the runner neither aborts nor reports a failure.
C17_NoEntryPointRunsFallback ==
    (run.by = "fusionGPT" /\ ~DefinesRun(run.code) /\ RunsClean(run.beh)) =>
        /\ run.out.raised = "none"
        /\ run.out.loads >= 1
        /\ run.out.result = <<"Code executed directly (no run function found).">>


\* C18 (as claimed): when paletteShow's execute_code ends, on any exit path
\* (the unit failing to load and its entry point raising included), the
\* temporary unit it created is deleted and the sys.path entry it added is
\* removed.
C18_UnitAndPathEntryRemoved ==
    run.by = "paletteShow" =>
        /\ run.out.created \cap temp_files = {}
        /\ sys_path = <<>>

-----------------------------------------------------------------------------
(* Further claims about extract_code (checked under SpecExtract) *)

\* An opening fence with no language tag, followed later by a closing fence.
HasBareBlock(msg) ==
    \E i \in Fences(msg) \ TaggedFences(msg) : \E j \in Fences(msg) : j > i

\* C19: when a text holds both a bare fenced block and a language-tagged
\* one, whichever comes first, extract_code returns the interior of the
\* tagged block (the first one, trimmed and cleaned as extract_code delivers
\* every interior).
C19_TaggedBlockPreferred ==
    (extracted.by = "fusionGPT" /\ HasBareBlock(message) /\ HasTaggedBlock(message))
        => extracted.out = Str(AsciiText(Trimmed(TaggedInterior(message))))

\* A bare block came first and the interior of the tagged block after it
\* was returned.
C19_Witness ==
    /\ extracted.by = "fusionGPT"
    /\ message = <<"fence", "x", "fence", " ", "fence", "python", "x", " ", "x", " ", "fence">>
    /\ extracted.out = Str(<<"x", " ", "x">>)

-----------------------------------------------------------------------------
(* Claims about FusionAPIDocs (checked under SpecDocs) *)

\* The cache file is present, fresh (younger than 14 days), readable and
\* holds a non-empty documentation table.
CacheUsable(file) ==
    /\ file.exists
    /\ file.age < 14
    /\ file.readable
    /\ file.data.api_docs # {}

\* C20: when a FusionAPIDocs has been constructed, its documentation table
\* is the static in-process table whenever the cache file was absent, 14
\* days old or older, unreadable or held an empty table, and is the table of
\* the cache file only when that was present, fresh and non-empty.
C20_StaticUnlessUsableCache ==
    [][(~docs.constructed /\ docs'.constructed) =>
           docs'.tables.api_docs = IF CacheUsable(cache) THEN cache.data.api_docs
                                   ELSE StaticDocs.api_docs]_vars

\* A readable cache file with an older table, exactly 14 days old, was found
\* and the table was rebuilt from the static one.
C20_Witness ==
    /\ docs.constructed
    /\ docs.found.exists
    /\ docs.found.readable
    /\ docs.found.age = 14
    /\ docs.found.data = OldDocs
    /\ docs.tables.api_docs = StaticDocs.api_docs


-----------------------------------------------------------------------------
\* C21: no operation of the plugin clears or shortens a history list: across
\* message handling, command_destroy, palette close and stop, the length of
\* the code history and of the error history never decreases (at the limit
\* add_to_history drops the oldest entry as it inserts the newest).
C21_HistoriesNeverShrink ==
    [][/\ Len(recent_code_history') >= Len(recent_code_history)
       /\ Len(recent_error_history') >= Len(recent_error_history)]_vars

\* More messages than the limit were handled, the error history is full, and
\* the command has been destroyed, the palette closed and the add-in stopped.
C21_Witness ==
    /\ turns > MAX_HISTORY_ITEMS
    /\ Len(recent_error_history) = MAX_HISTORY_ITEMS
    /\ Len(recent_code_history) > 0
    /\ clicks > 0
    /\ command = "none"
    /\ ~running
    /\ ui.palettes = <<>>


-----------------------------------------------------------------------------
(* Claims about what a turn records (checked under Spec) *)

\* The code of the turn was run to its end and the runner reported success.
ExecutionSucceeded(t) ==
    /\ t.results # <<>>
    /\ Head(t.results[1]) \in {"Code executed successfully.",
                               "Code executed directly (no run function found)."}

\* The runner refused the code of the turn before creating a unit.
ValidationAborted(t) ==
    /\ t.results # <<>>
    /\ Head(t.results[1]) = "VALIDATION FAILED: "

\* C22 (as claimed): in a turn that attempts an execution, the error history
\* gains an entry if and only if the attempt did not succeed; a validation
\* abort, a fault while loading or running and a preparation fault are each
\* recorded, and a successful execution adds no error entry.
C22_ErrorRecordedIffAttemptFailed ==
    [][(turns' = turns + 1 /\ turn'.executed # <<>>) =>
           ((recent_error_history' # recent_error_history)
                <=> ~ExecutionSucceeded(turn'))]_vars


-----------------------------------------------------------------------------
(* Claims about how often the code is run (checked under SpecRun) *)

\* C23 (as claimed): within one call of fusionGPT's execute_code the
\* top-level statements of the submitted code are run at most once, on the
\* entry-point path and on the no-entry-point fallback alike.
C23_TopLevelRunAtMostOnce ==
    run.by = "fusionGPT" => run.out.loads <= 1


-----------------------------------------------------------------------------
(* Claims about a turn that asks for code without running it (checked     *)
(* under Spec)                                                            *)

\* The message asks not to execute.
AsksNotToExecute(msg) ==
    \E i \in 1..Len(msg) : msg[i] \in {"don't execute", "Do Not Execute"}

\* A normal turn whose message asks not to execute and whose reply holds code.
DeclinedTurn(t) ==
    /\ t.path = "normal"
    /\ t.raised = "none"
    /\ AsksNotToExecute(t.msg)
    /\ Truthy(extract_code(t.reply))

\* C24: when the message contains "don't execute" or "do not execute", the
\* code extracted from the reply is not executed in that turn and the
\* outbound text is the reply unchanged, yet the code is recorded at the head
\* of the code history; an "execute the previous code" turn that follows and
\* falls back on the history runs exactly that code.
C24_DeclinedCodeKeptForLater ==
    [][/\ (turns' = turns + 1 /\ DeclinedTurn(turn')) =>
              /\ turn'.executed = <<>>
              /\ turn'.events = <<"gateway">>
              /\ turn'.returnData = Str(turn'.reply)
              /\ recent_code_history' # <<>>
              /\ recent_code_history'[1] = extract_code(turn'.reply).val
              /\ recent_error_history' = recent_error_history
       /\ (/\ turns' = turns + 1
           /\ DeclinedTurn(turn)
           /\ turn'.path = "execute_previous"
           /\ ~Truthy(extract_code(turn'.arg2))) =>
              /\ turn'.executed = <<extract_code(turn.reply).val>>
              /\ turn'.prompts = <<>>]_vars

\* The reply held code, the message said "Do Not Execute", nothing was run
\* and the code heads the history.
C24_Witness ==
    /\ DeclinedTurn(turn)
    /\ "Do Not Execute" \in Tokens(turn.msg)
    /\ turn.executed = <<>>
    /\ turn.returnData = Str(turn.reply)
    /\ recent_code_history # <<>>
    /\ recent_code_history[1] = extract_code(turn.reply).val


\* The list after is the list before, or the list before with one item put
\* at its head (and, at the limit, without its oldest item).
AddsAtMostOne(before, after) ==
    \/ after = before
    \/ /\ after # <<>>
       /\ after = add_to_history(Head(after), before)

\* C25: handling one inbound message adds at most one entry to the code
\* history and at most one entry to the error history, on every path through
\* palette_incoming; an "execute the previous code" turn leaves the code
\* history as it was.
C25_AtMostOneEntryPerTurn ==
    [][turns' = turns + 1 =>
           /\ AddsAtMostOne(recent_code_history, recent_code_history')
           /\ AddsAtMostOne(recent_error_history, recent_error_history')
           /\ turn'.path = "execute_previous" =>
                  recent_code_history' = recent_code_history]_vars

\* A turn recorded code and a failure; the "execute the previous code" turn
\* after it ran that code, failed again, and recorded the second failure only.
C25_Witness ==
    /\ turns = 2
    /\ turn.path = "execute_previous"
    /\ Len(recent_code_history) = 1
    /\ Len(recent_error_history) = 2
    /\ turn.executed = <<recent_code_history[1]>>


-----------------------------------------------------------------------------
(* Claims about the palette's life (checked under SpecPlugin) *)

\* C26: across button clicks and palette closings at most one palette with
\* the plugin's palette id exists, and its closed, navigating and incoming
\* handlers are each registered exactly once; once the add-in is stopped, the
\* command control, the command definition and the palette no longer exist.
C26_OnePaletteHandlersOnce ==
    /\ Len(ui.palettes) <= 1
    /\ \A i \in 1..Len(ui.palettes) :
           /\ ui.palettes[i].closed = 1
           /\ ui.palettes[i].navigatingURL = 1
           /\ ui.palettes[i].incomingFromHTML = 1
    /\ ~running =>
           /\ ~ui.commandDefinitions
           /\ ~ui.controls
           /\ ui.palettes = <<>>

\* In one run of the add-in the button was clicked twice, so command_execute
\* met the palette it had created, and the palette was closed afterwards.
C26_Witness ==
    /\ starts = 1
    /\ running
    /\ clicks = 2
    /\ command = "none"
    /\ Len(ui.palettes) = 1
    /\ ~ui.palettes[1].isVisible

====
